---- MODULE Spec2Model ----
(***************************************************************************)
(* DLT._predict (src/orbit/dlt.py): forecast reconstruction and            *)
(* extrapolation of the damped-local-trend model.                          *)
(*                                                                         *)
(* Numbers are exact rationals <<numerator, denominator>>; floating-point  *)
(* rounding is not modelled.  Tensors of shape (num_sample, time) are      *)
(* sequences (one per draw) of sequences (one entry per time index); the   *)
(* code's 0-based column idx is position idx + 1.  The global trend, the   *)
(* exponential and the inverse scaling are kept symbolic.                  *)
(***************************************************************************)
EXTENDS Integers, Sequences, FiniteSets, TLC

(***************************************************************************)
(* Bounds of the explored inputs.                                          *)
(***************************************************************************)
MaxTrainDate == 3
MaxAhead == 2
MaxPredLen == 3
TrainedLenB == 2
MaxHorizon == 3
SeasonPeriod == 2
Den == 2
MaxSample == 2
MaxPosRegressors == 2

MaxDate == MaxTrainDate + MaxAhead

None == "None"
NoException == [exc |-> "", line |-> 0]

Min(a, b) == IF a <= b THEN a ELSE b
Max(a, b) == IF a >= b THEN a ELSE b

(***************************************************************************)
(* Exact rational arithmetic.                                              *)
(***************************************************************************)
Abs(n) == IF n < 0 THEN -n ELSE n

RECURSIVE GCD(_, _)
GCD(a, b) == IF b = 0 THEN a ELSE GCD(b, a % b)

Norm(n, d) ==
    LET g == GCD(Abs(n), Abs(d))
        s == IF d < 0 THEN -1 ELSE 1
    IN  <<(s * n) \div g, (s * d) \div g>>

RInt(n) == <<n, 1>>
RZero == RInt(0)
ROne == RInt(1)
RAdd(x, y) == Norm(x[1] * y[2] + y[1] * x[2], x[2] * y[2])
RSub(x, y) == Norm(x[1] * y[2] - y[1] * x[2], x[2] * y[2])
RMul(x, y) == Norm(x[1] * y[1], x[2] * y[2])
RPos(x) == x[1] > 0
RNeg(x) == x[1] < 0

\* vectors over the draws
VAdd(x, y) == [d \in DOMAIN x |-> RAdd(x[d], y[d])]
VSub(x, y) == [d \in DOMAIN x |-> RSub(x[d], y[d])]
VMul(x, y) == [d \in DOMAIN x |-> RMul(x[d], y[d])]
VOneMinus(x) == [d \in DOMAIN x |-> RSub(ROne, x[d])]

(***************************************************************************)
(* Tensor helpers (torch indexing, slicing, cat, zeros).                   *)
(***************************************************************************)
Width(M) == IF Len(M) = 0 THEN 0 ELSE Len(M[1])
Col(M, i) == [d \in DOMAIN M |-> M[d][i + 1]]
SetCol(M, i, v) == [d \in DOMAIN M |-> [M[d] EXCEPT ![i + 1] = v[d]]]
SliceTo(M, n) == [d \in DOMAIN M |-> SubSeq(M[d], 1, Min(n, Len(M[d])))]
SliceFrom(M, s) == [d \in DOMAIN M |-> SubSeq(M[d], s + 1, Len(M[d]))]
Zeros(n, w) == [d \in 1..n |-> [t \in 1..w |-> RZero]]
Cat(A, B) == [d \in DOMAIN A |-> A[d] \o B[d]]
LastCol(M) == [d \in DOMAIN M |-> M[d][Len(M[d])]]
Fill(n, v) == [d \in 1..n |-> v]
Range(s) == {s[i] : i \in DOMAIN s}

(***************************************************************************)
(* The fitted model: configuration, training meta and posterior draws.     *)
(***************************************************************************)
\* DLT._set_model_param_names: the parameters the posterior state holds
BaseStanSamplingParameters ==
    {"local_trend_levels", "local_trend_slopes", "local_trend", "global_trend",
     "level_smoothing_factor", "slope_smoothing_factor",
     "global_trend_level", "global_trend_slope",
     "residual_degree_of_freedom", "residual_sigma"}

model_param_names(cfg) ==
    BaseStanSamplingParameters
    \cup (IF cfg.seasonality > 1
          THEN {"seasonality_levels", "seasonality_smoothing_factor"} ELSE {})
    \cup (IF RNeg(cfg.damped_factor_fixed) THEN {"damped_factor"} ELSE {})
    \cup (IF cfg.num_of_positive_regressors > 0 THEN {"pr_beta"} ELSE {})
    \cup (IF cfg.num_of_regular_regressors > 0 THEN {"rr_beta"} ELSE {})

\* training_df_meta as the fit leaves it
TrainingMeta(dates) ==
    [date_array |-> dates, df_length |-> Len(dates),
     training_start |-> dates[1], training_end |-> dates[Len(dates)]]

\* One posterior parameter array.  draws[d] holds draw d's scalars, T is the
\* training length, sl the number of stored seasonality columns.
ParamArray(k, cfg, draws, T, sl, b0) ==
    LET N == Len(draws) IN
    CASE k = "local_trend_levels" ->
            [d \in 1..N |-> [t \in 1..T |-> RSub(draws[d].L0, RInt(T - t))]]
      [] k = "local_trend_slopes" ->
            [d \in 1..N |-> [t \in 1..T |-> draws[d].B0]]
      [] k = "local_trend" ->
            [d \in 1..N |-> [t \in 1..T |-> RInt(t + d)]]
      [] k = "global_trend" ->
            [d \in 1..N |-> [t \in 1..T |-> <<"global_trend", d, t - 1>>]]
      [] k = "level_smoothing_factor" -> [d \in 1..N |-> draws[d].lev]
      [] k = "slope_smoothing_factor" -> [d \in 1..N |-> draws[d].slp]
      [] k = "seasonality_smoothing_factor" -> [d \in 1..N |-> draws[d].sea]
      [] k = "seasonality_levels" ->
            [d \in 1..N |-> [t \in 1..sl |-> RInt(2 * t + d)]]
      [] k = "damped_factor" -> [d \in 1..N |-> draws[d].damp]
      [] k = "pr_beta" ->
            [d \in 1..N |->
                [j \in 1..cfg.num_of_positive_regressors |-> RInt(b0 * (d + j))]]
      [] k = "rr_beta" ->
            [d \in 1..N |->
                [j \in 1..cfg.num_of_regular_regressors |-> RInt(-(d + j))]]
      [] OTHER -> [d \in 1..N |-> <<k, d>>]

Posterior(cfg, draws, T, sl, b0) ==
    [k \in model_param_names(cfg) |-> ParamArray(k, cfg, draws, T, sl, b0)]

\* the caller's frame: the date column and the regressor columns (after the
\* frame's own scaling / log transform), one row per date; regressor_col lists
\* the positive-constrained columns first, as the betas are concatenated
Frame(dates, ncols) ==
    [date_array |-> dates,
     regressors |-> [r \in 1..Len(dates) |-> [j \in 1..ncols |-> RInt(r + j - 1)]]]

(***************************************************************************)
(* The explored inputs.                                                    *)
(***************************************************************************)
RECURSIVE SortedSeq(_)
SortedSeq(S) ==
    IF S = {} THEN <<>>
    ELSE LET m == CHOOSE x \in S : \A y \in S : x <= y
         IN  <<m>> \o SortedSeq(S \ {m})

\* the training index: strictly increasing dates, gaps allowed
TrainingDates == {SortedSeq(S) : S \in (SUBSET (1..MaxTrainDate)) \ {{}}}

\* date columns of a frame: every increasing column up to MaxPredLen dates,
\* and each of them with its first two dates swapped or its first date repeated
OrderedColumns ==
    {SortedSeq(S) : S \in {X \in SUBSET (1..MaxDate) : Cardinality(X) <= MaxPredLen}}

DateColumns ==
    OrderedColumns
    \cup {[c EXCEPT ![1] = c[2], ![2] = c[1]] : c \in {x \in OrderedColumns : Len(x) >= 2}}
    \cup {<<c[1]>> \o c : c \in {x \in OrderedColumns : Len(x) >= 1}}

Fractions == {Norm(k, Den) : k \in 0..Den}

Half == Norm(1, 2)

CanonicalDraw(d) ==
    [lev |-> Half, slp |-> Half, sea |-> Half, damp |-> Half,
     L0 |-> RInt(3 + d), B0 |-> RInt(1)]

BaseCfg ==
    [seasonality |-> 0, damped_factor_fixed |-> Norm(4, 5),
     use_log_global_trend |-> TRUE, is_multiplicative |-> FALSE,
     auto_scale |-> FALSE,
     num_of_positive_regressors |-> 0, num_of_regular_regressors |-> 0]

Scenario(cfg, train, draws, sl, b0, dates, ie, dc) ==
    [cfg |-> cfg, train |-> train, draws |-> draws, sl |-> sl, b0 |-> b0,
     dates |-> dates, include_error |-> ie, decompose |-> dc]

\* date alignment: every training index and every short date column
DateScenarios ==
    {Scenario([BaseCfg EXCEPT !.seasonality = S], train, <<CanonicalDraw(1)>>,
              Len(train) + S, 1, dates, FALSE, TRUE) :
        S \in {0, SeasonPeriod}, train \in TrainingDates,
        dates \in DateColumns}

\* the recursion: contiguous windows that start at the last training date or
\* right after it and reach up to MaxHorizon dates past the training end
Windows ==
    {[i \in 1..(e - s + 1) |-> s + i - 1] :
        s \in TrainedLenB..(TrainedLenB + 1),
        e \in (TrainedLenB + 1)..(TrainedLenB + MaxHorizon)}

RecursionFor(S) ==
    {Scenario([BaseCfg EXCEPT !.seasonality = S, !.damped_factor_fixed = dff],
              [i \in 1..TrainedLenB |-> i],
              <<[lev |-> a, slp |-> b, sea |-> w, damp |-> Half,
                 L0 |-> RInt(3), B0 |-> RInt(-2)]>>,
              TrainedLenB + S + extra, 1, dates, ie, TRUE) :
        dff \in {RInt(-1), RZero, Half, ROne},
        a \in Fractions, b \in Fractions,
        w \in IF S = 0 THEN {Half} ELSE Fractions,
        extra \in IF S = 0 THEN {0} ELSE {-1, 0, 2},
        dates \in Windows,
        ie \in BOOLEAN}

RecursionScenarios == RecursionFor(0) \cup RecursionFor(SeasonPeriod)

\* regressors and output transforms, over the training index <<2, 3>>: an
\* empty frame, unordered and repeated dates, a start before the training
\* start, the training window itself, an overlap and a future window
ConfigDates ==
    {<<>>, <<3, 2>>, <<3, 3>>, <<1, 2>>, <<2, 3>>, <<3, 4>>, <<4>>, <<4, 5>>}

ConfigScenarios ==
    {Scenario([BaseCfg EXCEPT !.num_of_positive_regressors = np,
                              !.num_of_regular_regressors = nr,
                              !.is_multiplicative = mult,
                              !.auto_scale = scale,
                              !.use_log_global_trend = mult],
              <<2, 3>>, [d \in 1..N |-> CanonicalDraw(d)], 2, b0, dates, FALSE, dc) :
        np \in 0..MaxPosRegressors, nr \in 0..1, mult \in BOOLEAN,
        scale \in BOOLEAN, N \in 1..MaxSample, b0 \in {0, 1},
        dates \in ConfigDates, dc \in BOOLEAN}

Scenarios == DateScenarios \cup RecursionScenarios \cup ConfigScenarios

(***************************************************************************)
(* State.                                                                  *)
(*   this      the fitted DLT object: configuration, training_df_meta and  *)
(*             where the arrays of self._posterior_state live              *)
(*   heap      array memory: the stored posterior arrays and the arrays of *)
(*             the running call's copy                                     *)
(*   request   the arguments of the call: df, include_error, decompose     *)
(*   the rest  the position and the local variables of the running call    *)
(***************************************************************************)
VARIABLES this, heap, request, pc, model, n_forecast_steps, start, full_len,
          regressor_component, seasonality_component, full_local_trend,
          full_global_trend, last_local_trend_level, last_local_trend_slope,
          idx, raised, output, prev, new_levels, sea_writes

vars == <<this, heap, request, pc, model, n_forecast_steps, start, full_len,
          regressor_component, seasonality_component, full_local_trend,
          full_global_trend, last_local_trend_level, last_local_trend_slope,
          idx, raised, output, prev, new_levels, sea_writes>>

locals == <<n_forecast_steps, start, full_len, regressor_component,
            seasonality_component, full_local_trend, full_global_trend,
            last_local_trend_level, last_local_trend_slope, idx>>

Has(m, k) == k \in DOMAIN m

\* copy.deepcopy: the copies are new arrays in the call's own memory
aliased_copy(space) == space

deepcopy(space) == "working"

\* utils.is_ordered_datetime: strictly increasing, no repeats
is_ordered_datetime(array) == \A i \in 1..(Len(array) - 1) : array[i] < array[i + 1]

\* pandas Index.get_loc on a unique index: 0-based position, -1 for KeyError
get_loc(index, key) ==
    IF \E i \in DOMAIN index : index[i] = key
    THEN (CHOOSE i \in DOMAIN index : index[i] = key) - 1
    ELSE -1

\* lines 216-217
num_sample(m) == Len(m["local_trend_levels"])

\* lines 254-261; `pr_beta or rr_beta` takes the truth value of the tensor
\* pr_beta, which torch refuses for a tensor of more than one element
regressor_beta(m) ==
    IF Has(m, "pr_beta") /\ Has(m, "rr_beta")
    THEN [raises |-> FALSE, none |-> FALSE, val |-> Cat(m["pr_beta"], m["rr_beta"])]
    ELSE IF ~Has(m, "pr_beta")
    THEN IF Has(m, "rr_beta")
         THEN [raises |-> FALSE, none |-> FALSE, val |-> m["rr_beta"]]
         ELSE [raises |-> FALSE, none |-> TRUE, val |-> <<>>]
    ELSE IF Len(m["pr_beta"]) * Width(m["pr_beta"]) > 1
    THEN [raises |-> TRUE, none |-> TRUE, val |-> <<>>]
    ELSE IF m["pr_beta"][1][1] # RZero
    THEN [raises |-> FALSE, none |-> FALSE, val |-> m["pr_beta"]]
    ELSE [raises |-> FALSE, none |-> TRUE, val |-> <<>>]

\* lines 240-244: <<>> when the posterior holds no damped factor
damped_factor(cfg, m) ==
    IF RPos(cfg.damped_factor_fixed)
    THEN <<Fill(num_sample(m), cfg.damped_factor_fixed)>>
    ELSE IF Has(m, "damped_factor") THEN <<m["damped_factor"]>> ELSE <<>>

\* lines 278-283
prediction_df_meta(df) ==
    [date_array |-> df.date_array, df_length |-> Len(df.date_array),
     prediction_start |-> df.date_array[1],
     prediction_end |-> df.date_array[Len(df.date_array)]]

\* lines 298-311
clamped_forecast_steps(tm, pm) ==
    IF pm.prediction_start > tm.training_end
    THEN Cardinality(Range(pm.date_array))
    ELSE Cardinality(Range(pm.date_array) \ Range(tm.date_array))

forecast_steps(tm, pm) ==
    IF pm.prediction_start > tm.training_end
    THEN Cardinality(Range(pm.date_array))
    ELSE LET forecast_dates == Range(pm.date_array) \ Range(tm.date_array)
         IN  IF Cardinality(forecast_dates) # 0
             THEN Cardinality(forecast_dates)
             ELSE -Cardinality(Range(tm.date_array) \ Range(pm.date_array))

\* lines 302, 313-314
start_index(tm, pm) ==
    IF pm.prediction_start > tm.training_end
    THEN tm.df_length
    ELSE get_loc(tm.date_array, pm.prediction_start)

\* lines 322-331
regression(cfg, df, m, rb) ==
    IF cfg.num_of_regular_regressors > 0
    THEN [d \in 1..num_sample(m) |->
            [r \in 1..Len(df.date_array) |->
                LET RECURSIVE dot(_)
                    dot(j) == IF j = 0 THEN RZero
                              ELSE RAdd(dot(j - 1),
                                        RMul(df.regressors[r][j], rb.val[d][j]))
                IN  dot(Len(df.regressors[r]))]]
    ELSE Zeros(num_sample(m), Len(df.date_array))

\* lines 338-348: a slice is a view of the model's array, cat and zeros own
\* their data
seasonality(cfg, m, where, flen) ==
    IF cfg.seasonality > 1
    THEN IF flen <= Width(m["seasonality_levels"])
         THEN [base |-> where, len |-> flen, data |-> <<>>]
         ELSE [base |-> "own", len |-> flen,
               data |-> Cat(m["seasonality_levels"],
                            Zeros(num_sample(m),
                                  flen - Width(m["seasonality_levels"])))]
    ELSE [base |-> "own", len |-> flen, data |-> Zeros(num_sample(m), flen)]

\* lines 356-364
local_trend_init(m, tlen, flen) ==
    IF flen <= tlen
    THEN SliceTo(m["local_trend"], flen)
    ELSE Cat(SliceTo(m["local_trend"], flen), Zeros(num_sample(m), flen - tlen))

global_trend_init(m, tlen, flen) ==
    IF flen <= tlen
    THEN SliceTo(m["global_trend"], flen)
    ELSE Cat(SliceTo(m["global_trend"], flen), Zeros(num_sample(m), flen - tlen))

(***************************************************************************)
(* Init: a fitted model and the call its client makes.                     *)
(***************************************************************************)
Idle ==
    /\ pc = "idle"
    /\ model = None
    /\ n_forecast_steps = None /\ start = None /\ full_len = None
    /\ regressor_component = None /\ seasonality_component = None
    /\ full_local_trend = None /\ full_global_trend = None
    /\ last_local_trend_level = None /\ last_local_trend_slope = None
    /\ idx = None
    /\ raised = NoException /\ output = None
    /\ new_levels = <<>> /\ sea_writes = <<>>

InitFrom(sc) ==
    /\ this = [cfg |-> sc.cfg, training_df_meta |-> TrainingMeta(sc.train),
               posterior_state |-> "stored"]
    /\ heap = [stored |-> Posterior(sc.cfg, sc.draws, Len(sc.train), sc.sl, sc.b0),
               working |-> <<>>]
    /\ request = [df |-> Frame(sc.dates, sc.cfg.num_of_positive_regressors
                                         + sc.cfg.num_of_regular_regressors),
                  include_error |-> sc.include_error, decompose |-> sc.decompose]
    /\ prev = [set |-> FALSE, raised |-> NoException, output |-> None]
    /\ Idle

Init == \E sc \in Scenarios : InitFrom(sc)

(***************************************************************************)
(* _predict, lines 200-366: copy of the posterior, model attributes, date  *)
(* checks, horizon, and the components up to the start of the loop.        *)
(***************************************************************************)
Raise(exc, line) ==
    /\ pc' = "raised"
    /\ raised' = [exc |-> exc, line |-> line]
    /\ UNCHANGED <<locals, output, new_levels, sea_writes>>

Predict ==
    /\ pc = "idle"
    /\ LET where == deepcopy(this.posterior_state)
           copied == IF where = this.posterior_state THEN heap
                     ELSE [heap EXCEPT ![where] = heap[this.posterior_state]]
           m == copied[where]
           cfg == this.cfg
           tm == this.training_df_meta
           df == request.df
           rb == regressor_beta(m)
       IN  /\ model' = where
           /\ heap' = copied
           /\ IF rb.raises
              THEN Raise("RuntimeError", 261)
              ELSE IF Len(df.date_array) = 0
              THEN Raise("IndexError", 281)
              ELSE LET pm == prediction_df_meta(df) IN
                IF ~is_ordered_datetime(pm.date_array)
                THEN Raise("IllegalArgument", 286)
                ELSE IF pm.prediction_start < tm.training_start
                THEN Raise("PredictionException", 291)
                ELSE IF start_index(tm, pm) < 0
                THEN Raise("KeyError", 314)
                ELSE LET trained_len == tm.df_length
                         n == forecast_steps(tm, pm)
                         flen == trained_len + n
                     IN  /\ n_forecast_steps' = n
                         /\ start' = start_index(tm, pm)
                         /\ full_len' = flen
                         /\ regressor_component' = regression(cfg, df, m, rb)
                         /\ seasonality_component' = seasonality(cfg, m, where, flen)
                         /\ full_local_trend' = local_trend_init(m, trained_len, flen)
                         /\ full_global_trend' = global_trend_init(m, trained_len, flen)
                         /\ IF flen <= trained_len
                            THEN /\ pc' = "combine"
                                 /\ UNCHANGED <<last_local_trend_level,
                                                last_local_trend_slope, idx>>
                            ELSE /\ pc' = "loop"
                                 /\ last_local_trend_level' =
                                        LastCol(m["local_trend_levels"])
                                 /\ last_local_trend_slope' =
                                        LastCol(m["local_trend_slopes"])
                                 /\ idx' = trained_len
                         /\ UNCHANGED <<raised, output, new_levels, sea_writes>>
    /\ UNCHANGED <<this, request, prev>>

(***************************************************************************)
(* One iteration of the forecast loop, lines 368-416.                      *)
(***************************************************************************)
NoiseValues == {RInt(-1), RInt(1)}

\* seasonality_component[:, i], read through the view when it is one
SeasCol(sc, h, i) ==
    IF sc.base = "own" THEN Col(sc.data, i) ELSE Col(h[sc.base]["seasonality_levels"], i)

\* lines 401-403
noisy_level(lev, realized, curr) ==
    VAdd(VMul(lev, realized), VMul(VOneMinus(lev), realized))

new_level(lev, realized, curr) ==
    VAdd(VMul(lev, realized), VMul(VOneMinus(lev), curr))

\* lines 404-406
unweighted_slope(slp, nl, last_level, damped, last_slope) ==
    VAdd(VMul(slp, VSub(nl, last_level)), VMul(damped, last_slope))

new_slope(slp, nl, last_level, damped, last_slope) ==
    VAdd(VMul(slp, VSub(nl, last_level)),
         VMul(VMul(VOneMinus(slp), damped), last_slope))

\* lines 409-414
unweighted_seasonality(w, realized, s_t, nl) ==
    VAdd(VMul(w, VSub(VAdd(realized, s_t), nl)), VMul(w, s_t))

new_seasonality(w, realized, s_t, nl) ==
    VAdd(VMul(w, VSub(VAdd(realized, s_t), nl)), VMul(VOneMinus(w), s_t))

\* line 409: the column the step at index i writes, one period ahead
adjacent_target(cfg, i) == i + cfg.seasonality - 1

seasonality_target(cfg, i) == i + cfg.seasonality

\* lines 378-383, symbolic: level + log(1 + slope * idx), level + slope * (idx - 1)
global_trend_at(cfg, n, i) ==
    IF cfg.use_log_global_trend
    THEN [d \in 1..n |-> <<"log_global_trend", d, i>>]
    ELSE [d \in 1..n |-> <<"linear_global_trend", d, i - 1>>]

LoopStep ==
    /\ pc = "loop"
    /\ LET m == heap[model]
           cfg == this.cfg
           df_ == damped_factor(cfg, m)
       IN  IF Len(df_) = 0
           THEN /\ Raise("AttributeError", 371)
                /\ UNCHANGED heap
           ELSE \E error_value \in
                    IF request.include_error
                    THEN [1..num_sample(m) -> NoiseValues]
                    ELSE {[d \in 1..num_sample(m) |-> RZero]} :
                LET damped == df_[1]
                    curr_local_trend ==
                        VAdd(last_local_trend_level, VMul(damped, last_local_trend_slope))
                    realized == VAdd(curr_local_trend, error_value)
                    nl == new_level(m["level_smoothing_factor"], realized,
                                    curr_local_trend)
                    ns == new_slope(m["slope_smoothing_factor"], nl,
                                    last_local_trend_level, damped,
                                    last_local_trend_slope)
                    writes == cfg.seasonality > 1 /\ idx + cfg.seasonality < full_len
                    target == seasonality_target(cfg, idx)
                    sc == seasonality_component
                IN  /\ full_local_trend' = SetCol(full_local_trend, idx, realized)
                    /\ full_global_trend' =
                           SetCol(full_global_trend, idx,
                                  global_trend_at(cfg, num_sample(m), idx))
                    /\ last_local_trend_slope' = ns
                    /\ last_local_trend_level' = nl
                    /\ IF writes
                       THEN LET v == new_seasonality(
                                         m["seasonality_smoothing_factor"],
                                         realized, SeasCol(sc, heap, idx), nl)
                            IN  IF sc.base = "own"
                                THEN /\ seasonality_component' =
                                            [sc EXCEPT !.data = SetCol(@, target, v)]
                                     /\ UNCHANGED heap
                                ELSE /\ heap' = [heap EXCEPT
                                            ![sc.base]["seasonality_levels"] =
                                                SetCol(@, target, v)]
                                     /\ UNCHANGED seasonality_component
                       ELSE UNCHANGED <<seasonality_component, heap>>
                    /\ sea_writes' = IF writes
                                     THEN Append(sea_writes, <<idx, target>>)
                                     ELSE sea_writes
                    /\ new_levels' = Append(new_levels, nl)
                    /\ idx' = idx + 1
                    /\ pc' = IF idx + 1 < full_len THEN "loop" ELSE "combine"
                    /\ UNCHANGED <<n_forecast_steps, start, full_len,
                                   regressor_component, raised, output>>
    /\ UNCHANGED <<this, request, prev, model>>

(***************************************************************************)
(* Combine components and transform the output, lines 422-462.             *)
(***************************************************************************)
\* torch broadcasting of the time axis: -1 when the widths do not combine
broadcast(w1, w2) ==
    IF w1 = w2 THEN w1
    ELSE IF w1 = 1 THEN w2
    ELSE IF w2 = 1 THEN w1
    ELSE -1

Element(g, v) == [g |-> g, v |-> v, f |-> <<>>]
Apply(M, fn) == [d \in DOMAIN M |-> [c \in DOMAIN M[d] |->
                    [M[d][c] EXCEPT !.f = Append(@, fn)]]]

\* lines 423-424
trend_trimmed(fgt, flt, st) ==
    LET g == SliceFrom(fgt, st)
        l == SliceFrom(flt, st)
    IN  [d \in DOMAIN l |-> [c \in DOMAIN l[d] |-> Element(g[d][c], l[d][c])]]

seasonality_trimmed(sc, h, st) ==
    LET whole == IF sc.base = "own" THEN sc.data
                 ELSE SliceTo(h[sc.base]["seasonality_levels"], sc.len)
        s == SliceFrom(whole, st)
    IN  [d \in DOMAIN s |-> [c \in DOMAIN s[d] |-> Element(<<>>, s[d][c])]]

\* line 427
pred_sum(tc, sc, rc, w) ==
    [d \in DOMAIN tc |-> [c \in 1..w |->
        LET t == tc[d][IF Width(tc) = 1 THEN 1 ELSE c]
            s == sc[d][IF Width(sc) = 1 THEN 1 ELSE c]
            r == rc[d][IF Width(rc) = 1 THEN 1 ELSE c]
        IN  Element(t.g, RAdd(RAdd(t.v, s.v), r))]]

\* lines 430-449
transformed(cfg, M, unscale) ==
    LET e == IF cfg.is_multiplicative THEN Apply(M, "exp") ELSE M
    IN  IF cfg.auto_scale /\ unscale THEN Apply(e, "inverse_transform") ELSE e

Combine ==
    /\ pc = "combine"
    /\ LET cfg == this.cfg
           tc == trend_trimmed(full_global_trend, full_local_trend, start)
           sc == seasonality_trimmed(seasonality_component, heap, start)
           rc == regressor_component
           w == broadcast(Width(tc), Width(rc))
       IN  IF w < 0
           THEN Raise("RuntimeError", 427)
           ELSE LET reg == [d \in DOMAIN rc |-> [c \in DOMAIN rc[d] |->
                                Element(<<>>, rc[d][c])]]
                    decomp_dict ==
                        [prediction |-> transformed(cfg, pred_sum(tc, sc, rc, w), TRUE),
                         trend |-> transformed(cfg, tc, TRUE),
                         seasonality |-> transformed(cfg, sc, FALSE),
                         regression |-> transformed(cfg, reg, FALSE)]
                IN  /\ output' = IF request.decompose THEN decomp_dict
                                 ELSE [prediction |-> decomp_dict.prediction]
                    /\ pc' = "returned"
                    /\ UNCHANGED <<locals, raised, new_levels, sea_writes>>
    /\ UNCHANGED <<this, heap, request, prev, model>>

(***************************************************************************)
(* The call is over: its locals and its copy of the posterior are dropped. *)
(* prev keeps the outcome of the last call made without noise.             *)
(***************************************************************************)
Finish ==
    /\ pc \in {"returned", "raised"}
    /\ pc' = "idle"
    /\ prev' = IF request.include_error THEN prev
               ELSE [set |-> TRUE, raised |-> raised, output |-> output]
    /\ heap' = [heap EXCEPT !.working = <<>>]
    /\ model' = None
    /\ n_forecast_steps' = None /\ start' = None /\ full_len' = None
    /\ regressor_component' = None /\ seasonality_component' = None
    /\ full_local_trend' = None /\ full_global_trend' = None
    /\ last_local_trend_level' = None /\ last_local_trend_slope' = None
    /\ idx' = None
    /\ raised' = NoException /\ output' = None
    /\ new_levels' = <<>> /\ sea_writes' = <<>>
    /\ UNCHANGED <<this, request>>

Next == Predict \/ LoopStep \/ Combine \/ Finish

Spec == Init /\ [][Next]_vars

(***************************************************************************)
(* Properties.                                                             *)
(***************************************************************************)
TM == this.training_df_meta
Dates == request.df.date_array
Rows == Len(request.df.date_array)
TrainSet == Range(this.training_df_meta.date_array)
PredSet == Range(request.df.date_array)

Increasing(s) == \A i \in 1..(Len(s) - 1) : s[i] < s[i + 1]

\* the call passed both date checks
ValidDates == Rows > 0 /\ Increasing(Dates) /\ Dates[1] >= TM.training_start

\* the horizon has been resolved: n_forecast_steps, start and full_len are set
Sized == pc \in {"loop", "combine", "returned"} \/ (pc = "raised" /\ raised.line > 316)

StrictSubset == PredSet \subseteq TrainSet /\ PredSet # TrainSet

\* C1 as stated: combined length = training length + max(forecast horizon, 0),
\* so a negative horizon never makes it smaller than the training length.
C1_ClampedLength ==
    Sized => /\ full_len = TM.df_length + Max(n_forecast_steps, 0)
             /\ full_len >= TM.df_length

\* C1 amended: the combined length is training length + forecast horizon with
\* the horizon unclamped: training length + number of new dates when the
\* window has dates outside the training index, and the number of prediction
\* dates (below the training length for a strict subset) when it has none.
C1_CombinedLength ==
    Sized => /\ full_len = TM.df_length + n_forecast_steps
             /\ full_len = IF PredSet \subseteq TrainSet
                           THEN Cardinality(PredSet)
                           ELSE TM.df_length + Cardinality(PredSet \ TrainSet)
             /\ (n_forecast_steps < 0 => full_len < TM.df_length)

C1_Witness == pc = "combine" /\ n_forecast_steps < 0 /\ full_len < TM.df_length

\* widths of what a finished call returned
OutputWidths == {Width(output[k]) : k \in DOMAIN output}

\* C2: a window that is a strict subset of the training dates gives a negative
\* horizon, runs no loop step and returns arrays with one column per
\* requested row.
C2_NegativeHorizonSizing ==
    (pc \in {"returned", "raised"} /\ ValidDates /\ StrictSubset)
        => /\ pc = "returned"
           /\ n_forecast_steps < 0
           /\ new_levels = <<>>
           /\ OutputWidths = {Rows}

\* C3: unordered or repeated dates raise IllegalArgument; ordered dates that
\* start before the training start raise PredictionException; the ordering
\* check comes first; either way the call ends before the horizon is resolved.
C3_DateChecks ==
    (pc \in {"returned", "raised"} /\ Rows > 0 /\ ~ValidDates)
        => /\ pc = "raised"
           /\ raised = IF ~Increasing(Dates)
                       THEN [exc |-> "IllegalArgument", line |-> 286]
                       ELSE [exc |-> "PredictionException", line |-> 291]

\* C4: a call that passed both date checks never fails in the horizon
\* resolver: start is the position of the first prediction date in the
\* training index, or the training length (with horizon = number of
\* prediction dates) when the window starts after the training end.
C4_StartOffset ==
    (pc # "idle" /\ ValidDates /\ (pc = "raised" => raised.line > 291))
        => /\ Sized
           /\ IF Dates[1] > TM.training_end
              THEN start = TM.df_length /\ n_forecast_steps = Rows
              ELSE /\ start \in 0..(TM.df_length - 1)
                   /\ TM.date_array[start + 1] = Dates[1]

TrainedLen == this.training_df_meta.df_length
Draws == 1..Len(heap.stored["local_trend_levels"])

\* a finished call made without noise after an earlier such call gave the
\* same outcome
Idempotent ==
    (pc \in {"returned", "raised"} /\ ~request.include_error /\ prev.set)
        => /\ prev.raised = raised
           /\ (pc = "returned" => prev.output = output)

\* C5: no step of a call changes the stored posterior draws, also when the
\* loop writes in place into a slice of the seasonality levels; two successive
\* calls with the same inputs and no noise return the same output.
C5_PosteriorUnchanged ==
    /\ [][heap'.stored = heap.stored]_vars
    /\ []Idempotent

C5_Witness ==
    /\ pc = "returned" /\ prev.set /\ ~request.include_error
    /\ sea_writes # <<>>
    /\ seasonality_component.base = model

RECURSIVE RSum(_)
RSum(q) == IF Len(q) = 0 THEN RZero ELSE RAdd(Head(q), RSum(Tail(q)))

\* the draw-wise linear combination of every configured beta with the rows of
\* the regressor matrix (positive-constrained columns first)
ExpectedRegression ==
    LET np == this.cfg.num_of_positive_regressors
        nr == this.cfg.num_of_regular_regressors
        X == request.df.regressors
    IN  [d \in Draws |-> [r \in 1..Rows |->
            RSum([j \in 1..np |-> RMul(X[r][j], heap.stored["pr_beta"][d][j])]
                 \o [j \in 1..nr |->
                        RMul(X[r][np + j], heap.stored["rr_beta"][d][j])])]]

\* C6: for every regressor configuration the regression component is the
\* draw-wise linear combination of the configured betas with the prediction
\* rows (zeros when none is configured), and configuring regressors does not
\* make the call fail.
C6_Regression ==
    /\ pc \in {"combine", "returned"} => regressor_component = ExpectedRegression
    /\ pc = "raised" => raised.line # 261

\* seasonality and level at time index t once the loop is over
SeasAt(t) == SeasCol(seasonality_component, heap, t)
LevelAt(t) == IF t >= TrainedLen THEN new_levels[t - TrainedLen + 1]
              ELSE Col(heap.stored["local_trend_levels"], t)

WriteAhead(t) ==
    \A d \in Draws :
        LET w == heap.stored["seasonality_smoothing_factor"][d]
            s_t == SeasAt(t)[d]
            residual == RSub(RAdd(full_local_trend[d][t + 1], s_t), LevelAt(t)[d])
        IN  SeasAt(t + this.cfg.seasonality)[d]
                = RAdd(RMul(w, residual), RMul(RSub(ROne, w), s_t))

RecursionFinished ==
    pc \in {"combine", "returned"} /\ this.cfg.seasonality > 1 /\ Len(new_levels) > 0

\* C7 as stated: after the recursion the write-ahead relation holds for all t
\* with t + period < combined length.
C7_WriteAheadAll ==
    RecursionFinished
        => \A t \in 0..(full_len - this.cfg.seasonality - 1) : WriteAhead(t)

\* C7 amended: after the recursion the write-ahead relation holds for all t
\* with training length <= t and t + period < combined length.
C7_WriteAheadForecast ==
    RecursionFinished
        => \A t \in TrainedLen..(full_len - this.cfg.seasonality - 1) : WriteAhead(t)

C7_Witness ==
    /\ pc = "returned" /\ this.cfg.seasonality > 1 /\ Len(sea_writes) > 0
    /\ request.include_error

StepAsClaimed ==
    /\ idx' = idx + 1
    /\ \A d \in Draws :
        LET damped == IF RPos(this.cfg.damped_factor_fixed)
                      THEN this.cfg.damped_factor_fixed
                      ELSE heap.stored["damped_factor"][d]
            lev == heap.stored["level_smoothing_factor"][d]
            slp == heap.stored["slope_smoothing_factor"][d]
            L == last_local_trend_level[d]
            B == last_local_trend_slope[d]
            local == RAdd(L, RMul(damped, B))
            realized == full_local_trend'[d][idx + 1]
            noise == RSub(realized, local)
            nl == RAdd(RMul(lev, realized), RMul(RSub(ROne, lev), local))
        IN  /\ IF request.include_error THEN noise \in NoiseValues ELSE noise = RZero
            /\ last_local_trend_level'[d] = nl
            /\ last_local_trend_slope'[d]
                   = RAdd(RMul(slp, RSub(nl, L)),
                          RMul(RMul(RSub(ROne, slp), damped), B))

LoopBounds ==
    /\ pc = "loop" =>
        /\ idx \in TrainedLen..(full_len - 1)
        /\ Len(new_levels) = idx - TrainedLen
        /\ idx = TrainedLen =>
            /\ last_local_trend_level = LastCol(heap.stored["local_trend_levels"])
            /\ last_local_trend_slope = LastCol(heap.stored["local_trend_slopes"])
    /\ pc \in {"combine", "returned"} =>
        Len(new_levels) = Max(full_len - TrainedLen, 0)

C10_TrimmedWidth ==
    (pc = "combine" /\ Dates[Rows] > TM.training_end)
        => /\ Width(trend_trimmed(full_global_trend, full_local_trend, start))
                = full_len - start
           /\ Width(seasonality_trimmed(seasonality_component, heap, start))
                = full_len - start
           /\ full_len - start = Rows

\* C11: whenever the recursion runs, for damped_factor_fixed > 0, = 0 and < 0
\* alike, the damped factor is defined: the fixed scalar for every draw in the
\* fixed mode, and otherwise the per-draw posterior parameter, which
\* _set_model_param_names registered for that configuration; the loop never
\* fails on a damped factor that is absent.
C11_DampedFactorDefined ==
    /\ pc = "raised" => raised.line # 371
    /\ pc = "loop" =>
        LET cfg == this.cfg
            m == heap[model]
        IN  /\ Len(damped_factor(cfg, m)) = 1
            /\ IF RPos(cfg.damped_factor_fixed)
               THEN damped_factor(cfg, m)[1]
                        = Fill(num_sample(m), cfg.damped_factor_fixed)
               ELSE /\ "damped_factor" \in model_param_names(cfg)
                    /\ damped_factor(cfg, m)[1] = heap.stored["damped_factor"]

\* the loop has run: the call is in it or past it with at least one forecast
\* index, and did not fail in it
RecursionRuns ==
    /\ this.cfg.seasonality > 1
    /\ pc \in {"loop", "combine", "returned"} \/ (pc = "raised" /\ raised.line > 416)
    /\ full_len > TrainedLen

\* seasonality[j] as it was before the loop: the stored draw, or the zero
\* padding past the end of the stored seasonality
PreLoopSeasonality(j) ==
    IF j < Width(heap.stored["seasonality_levels"])
    THEN Col(heap.stored["seasonality_levels"], j)
    ELSE [d \in Draws |-> RZero]

\* the writes of the first n loop steps that write: step i writes i + period
WritesOfSteps(n) ==
    [k \in 1..n |-> <<TrainedLen + k - 1, TrainedLen + k - 1 + this.cfg.seasonality>>]

====
